---- MODULE Spec2Model ----
(***************************************************************************)
(* Model of backEnd/app.py: the Flask card gateway in front of a remote    *)
(* PostgREST table store.                                                  *)
(*                                                                         *)
(* A card id is a Python string, modelled as the sequence of its           *)
(* '_'-separated segments ("mod1_card_3" is <<"mod1","card","3">>, the     *)
(* empty string is <<"">>); Python's None is the empty sequence.  A JSON   *)
(* object (a card payload, a row's data) is a function from field names to *)
(* values.  A table is the set of its rows [cardid, data], the cardid      *)
(* column being the table's key.                                           *)
(*                                                                         *)
(* Request threads run the before_request hook one remote call at a time,  *)
(* so that concurrent first requests interleave in it; each route handler  *)
(* is one step against the store.  Every remote call and every read of a   *)
(* fixture file may fail.  The store answers a successful POST or PATCH    *)
(* with the rows written, as the handlers expect (result[0]).              *)
(***************************************************************************)
EXTENDS Integers, Sequences, FiniteSets, TLC

\* ------------------------------------------------------------------ bounds
Threads == {"t1", "t2"}
MaxRequests == 2

\* ------------------------------------------------------------------ values
None == <<>>
EmptyStr == <<"">>

Numerals == <<"1", "2", "3", "4", "5", "6", "7", "8", "9">>

MODULE_TO_TABLE == {"mod1", "mod2"}
ModuleIds == MODULE_TO_TABLE \cup {"modX"}

A1 == <<"mod1", "card", "1">>
A3 == <<"mod1", "card", "3">>
AX == <<"mod1", "card", "x", "2">>
ZZ == <<"custom">>

\* the bundled fixture files {module_id}_cards.json
Fixture(m) ==
    IF m = "mod1"
    THEN << [cardid |-> A1, front |-> "a"], [cardid |-> A3, front |-> "b"] >>
    ELSE << >>

\* ------------------------------------------------------------------ dicts
DictGet(d, k) == IF k \in DOMAIN d THEN d[k] ELSE None
DictSet(d, k, v) == [x \in (DOMAIN d) \cup {k} |-> IF x = k THEN v ELSE d[x]]
DictPop(d, k) == [x \in (DOMAIN d) \ {k} |-> d[x]]
Falsy(v) == v = None \/ v = EmptyStr

Range(s) == {s[i] : i \in DOMAIN s}
Orderings(S) == {s \in [1..Cardinality(S) -> S] : Range(s) = S}

\* int(s): the value of a decimal numeral, -1 standing for ValueError
int(s) == IF \E n \in DOMAIN Numerals : Numerals[n] = s
          THEN CHOOSE n \in DOMAIN Numerals : Numerals[n] = s
          ELSE -1
str(n) == Numerals[n]

\* ------------------------------------------------------------------ store
Ids(T) == {r.cardid : r \in T}

\* one INSERT statement: the key column is unique and not null
InsertOk(T, batch, upsert) ==
    /\ \A i \in DOMAIN batch : batch[i].cardid # None
    /\ \A i, j \in DOMAIN batch : batch[i].cardid = batch[j].cardid => i = j
    /\ upsert \/ \A i \in DOMAIN batch : batch[i].cardid \notin Ids(T)
Inserted(T, batch) ==
    {r \in T : r.cardid \notin Ids(Range(batch))} \cup Range(batch)

\* PATCH ?cardid=eq.id : the columns of body replace those of the matching row
Patched(T, id, body) ==
    {IF r.cardid = id
     THEN [cardid |-> IF "cardid" \in DOMAIN body THEN body.cardid ELSE r.cardid,
           data |-> IF "data" \in DOMAIN body THEN body.data ELSE r.data]
     ELSE r : r \in T}

\* ------------------------------------------------------------------ reshape

\* variant: only the first record is reshaped
transform_first_only(records) ==
    IF records = << >> THEN << >>
    ELSE <<DictSet(Head(records).data, "cardid", Head(records).cardid)>>

RECURSIVE transform_from_supabase(_)
transform_from_supabase(records) ==
    IF records = << >> THEN << >>
    ELSE LET record == Head(records)
             rest == transform_from_supabase(Tail(records))
         IN IF "cardid" \in DOMAIN record /\ "data" \in DOMAIN record
            THEN <<DictSet(record.data, "cardid", record.cardid)>> \o rest
            ELSE rest

\* data_to_insert of initialize_data, reset_cards and import_cards
RowsOf(cards) ==
    [i \in DOMAIN cards |-> [cardid |-> DictGet(cards[i], "cardid"), data |-> cards[i]]]

\* tables               the rows of each known module's remote table
\* initial_data_checked the process-wide flag of check_initial_data
\* pc                   where each request thread stands: idle, in the hook
\*                      (check_m, load_m, set_flag) or at its route
\* seedRuns             how many times initialize_data was entered per module
\* nreq                 requests received so far
\* last                 the last response sent, with the request it answers
VARIABLES tables, initial_data_checked, pc, seedRuns, nreq, last
vars == <<tables, initial_data_checked, pc, seedRuns, nreq, last>>

NoResponse == [op |-> "none"]

\* the store at process start: empty, or as earlier Create and Update requests
\* left it
InitialTables ==
    { {},
      {[cardid |-> AX, data |-> [front |-> "a"]]},
      {[cardid |-> A1, data |-> [front |-> "c"]], [cardid |-> A3, data |-> [front |-> "c"]]} }

Init ==
    /\ tables \in {[m \in MODULE_TO_TABLE |-> IF m = "mod1" THEN T ELSE {}] :
                     T \in InitialTables}
    /\ initial_data_checked = FALSE
    /\ pc = [t \in Threads |-> "idle"]
    /\ seedRuns = [m \in MODULE_TO_TABLE |-> 0]
    /\ nreq = 0
    /\ last = NoResponse

\* ------------------------------------------------------------------ before_request
NextAfter(m) == IF m = "mod1" THEN "check_mod2" ELSE "set_flag"

\* a request arrives: the hook tests the process-wide flag
check_initial_data(t) ==
    /\ pc[t] = "idle"
    /\ nreq < MaxRequests
    /\ nreq' = nreq + 1
    /\ pc' = [pc EXCEPT ![t] = IF initial_data_checked THEN "route" ELSE "check_mod1"]
    /\ UNCHANGED <<tables, initial_data_checked, seedRuns, last>>

\* initialize_data, step 1: is the table empty?
initialize_data_check(t, m) ==
    /\ pc[t] = "check_" \o m
    /\ seedRuns' = [seedRuns EXCEPT ![m] = @ + 1]
    /\ \E ok \in BOOLEAN :
         pc' = [pc EXCEPT ![t] = IF ok /\ tables[m] = {} THEN "load_" \o m
                                 ELSE NextAfter(m)]
    /\ UNCHANGED <<tables, initial_data_checked, nreq, last>>

\* initialize_data, step 2: load the fixture file and bulk-insert it
initialize_data_load(t, m) ==
    /\ pc[t] = "load_" \o m
    /\ \E fault \in {"none", "file", "post"} :
         LET data_to_insert == RowsOf(Fixture(m))
         IN tables' = IF fault = "none" /\ data_to_insert # << >>
                         /\ InsertOk(tables[m], data_to_insert, TRUE)
                      THEN [tables EXCEPT ![m] = Inserted(@, data_to_insert)]
                      ELSE tables
    /\ pc' = [pc EXCEPT ![t] = NextAfter(m)]
    /\ UNCHANGED <<initial_data_checked, seedRuns, nreq, last>>

set_flag(t) ==
    /\ pc[t] = "set_flag"
    /\ initial_data_checked' = TRUE
    /\ pc' = [pc EXCEPT ![t] = "route"]
    /\ UNCHANGED <<tables, seedRuns, nreq, last>>

\* ------------------------------------------------------------------ routes
\* the response leaves; last records it with the module's table before and after
\* the handler
TableOf(tt, module_id) == IF module_id \in MODULE_TO_TABLE THEN tt[module_id] ELSE {}

Respond(t, r) ==
    /\ last' = r @@ [before |-> TableOf(tables, r.module),
                     after |-> TableOf(tables', r.module)]
    /\ pc' = [pc EXCEPT ![t] = "idle"]
    /\ UNCHANGED <<initial_data_checked, seedRuns, nreq>>

\* what a List response keeps of the response it follows
Summary(r) ==
    IF r.op = "none" THEN [op |-> "none"]
    ELSE [op |-> r.op, module |-> r.module, status |-> r.status, after |-> r.after]

get_all_cards(t, module_id) ==
    /\ pc[t] = "route"
    /\ UNCHANGED tables
    /\ LET known == module_id \in MODULE_TO_TABLE
       IN \E fault \in (IF known THEN {"none", "get"} ELSE {"module"}) :
          IF fault # "none"
          THEN Respond(t, [op |-> "list", module |-> module_id, status |-> 500,
                           fault |-> fault, prev |-> Summary(last)])
          ELSE \E supabase_records \in Orderings(tables[module_id]) :
               Respond(t, [op |-> "list", module |-> module_id, status |-> 200,
                           fault |-> fault, prev |-> Summary(last),
                           body |-> transform_from_supabase(supabase_records)])

\* the id scan of add_card
StartsWithPrefix(card_id_str, module_id) ==
    /\ Len(card_id_str) >= 3
    /\ card_id_str[1] = module_id
    /\ card_id_str[2] = "card"

Max(a, b) == IF a >= b THEN a ELSE b

RECURSIVE max_number(_, _)
max_number(existing_cards, module_id) ==
    IF existing_cards = << >> THEN 0
    ELSE LET card == existing_cards[Len(existing_cards)]
             before == max_number(SubSeq(existing_cards, 1, Len(existing_cards) - 1),
                                  module_id)
             card_id_str == DictGet(card, "cardid")
         IN IF StartsWithPrefix(card_id_str, module_id)
               /\ int(card_id_str[Len(card_id_str)]) # -1
            THEN Max(before, int(card_id_str[Len(card_id_str)]))
            ELSE before

SelectCardid(T) ==
    LET rows == CHOOSE s \in Orderings(T) : TRUE
    IN [i \in DOMAIN rows |-> [cardid |-> rows[i].cardid]]

next_number(T, module_id) == max_number(SelectCardid(T), module_id) + 1

\* the row add_card posts for a payload, given the number to use when it has no id
AddRow(new_card_data, module_id, n) ==
    IF Falsy(DictGet(new_card_data, "cardid"))
    THEN LET card_id == <<module_id, "card", str(n)>>
         IN [cardid |-> card_id, data |-> DictSet(new_card_data, "cardid", card_id)]
    ELSE [cardid |-> DictGet(new_card_data, "cardid"), data |-> new_card_data]

add_card(t, module_id, new_card_data) ==
    /\ pc[t] = "route"
    /\ LET scan == Falsy(DictGet(new_card_data, "cardid"))
           known == module_id \in MODULE_TO_TABLE
       IN \E fault \in (IF known THEN {"none", "post"} ELSE {"module"})
                       \cup (IF known /\ scan THEN {"get"} ELSE {}) :
          LET n == IF known THEN next_number(tables[module_id], module_id) ELSE 1
              row == AddRow(new_card_data, module_id, n)
          IN /\ n \in DOMAIN Numerals
             /\ IF fault = "none" /\ InsertOk(tables[module_id], <<row>>, FALSE)
                THEN /\ tables' = [tables EXCEPT ![module_id] = Inserted(@, <<row>>)]
                     /\ Respond(t, [op |-> "create", module |-> module_id,
                                    status |-> 201, fault |-> fault, req |-> new_card_data,
                                    body |-> DictSet(row.data, "cardid", row.cardid)])
                ELSE /\ UNCHANGED tables
                     /\ Respond(t, [op |-> "create", module |-> module_id,
                                    status |-> 500, req |-> new_card_data,
                                    fault |-> IF fault = "none" THEN "post" ELSE fault])


\* variant: the payload's cardid is sent as a column of the PATCH
data_to_update_columns(updates) ==
    IF "cardid" \in DOMAIN updates
    THEN [cardid |-> updates.cardid, data |-> DictPop(updates, "cardid")]
    ELSE [data |-> updates]

\* variant: the payload's cardid is not stripped
data_to_update_raw(updates) == [data |-> updates]

\* the PATCH body of update_card
data_to_update(updates) == [data |-> DictPop(updates, "cardid")]

update_card(t, module_id, card_id, updates) ==
    /\ pc[t] = "route"
    /\ \E fault \in (IF module_id \in MODULE_TO_TABLE THEN {"none", "patch"}
                     ELSE {"module"}) :
          IF fault # "none"
          THEN /\ UNCHANGED tables
               /\ Respond(t, [op |-> "update", module |-> module_id, status |-> 500,
                              fault |-> fault, id |-> card_id, req |-> updates])
          ELSE LET T == tables[module_id]
                   hit == {r \in T : r.cardid = card_id}
                   after == Patched(T, card_id, data_to_update(updates))
                   result == CHOOSE s \in Orderings(after \ (T \ hit)) : TRUE
               IN /\ tables' = [tables EXCEPT ![module_id] = after]
                  /\ IF result = << >>
                     THEN Respond(t, [op |-> "update", module |-> module_id,
                                      status |-> 404, fault |-> fault,
                                      id |-> card_id, req |-> updates])
                     ELSE Respond(t, [op |-> "update", module |-> module_id,
                                      status |-> 200, fault |-> fault,
                                      id |-> card_id, req |-> updates,
                                      body |-> transform_from_supabase(result)[1]])


\* variant: the eq filter is lost and every row matches
Deleted_unfiltered(T, card_id) == {r \in T : FALSE}

\* DELETE ?cardid=eq.card_id
Deleted(T, card_id) == {r \in T : r.cardid # card_id}

delete_card(t, module_id, card_id) ==
    /\ pc[t] = "route"
    /\ \E fault \in (IF module_id \in MODULE_TO_TABLE THEN {"none", "delete"}
                     ELSE {"module"}) :
          /\ tables' = IF fault = "none"
                       THEN [tables EXCEPT ![module_id] = Deleted(@, card_id)]
                       ELSE tables
          /\ Respond(t, [op |-> "delete", module |-> module_id,
                         status |-> IF fault = "none" THEN 200 ELSE 500,
                         fault |-> fault, id |-> card_id])


\* variant: the filter is is.null and no row matches
Wiped_is_null(T) == T

\* DELETE ?cardid=not.is.null
Wiped(T) == {r \in T : r.cardid = None}


\* variant: the fixture file is read before the wipe
Replace_read_first(T, cards, fault) ==
    LET data_to_insert == RowsOf(cards)
    IN IF fault \in {"delete", "file"} THEN [table |-> T, status |-> 500, failed |-> fault]
       ELSE IF data_to_insert = << >>
            THEN [table |-> Wiped(T), status |-> 200, failed |-> "none"]
       ELSE IF fault = "post" \/ ~InsertOk(Wiped(T), data_to_insert, TRUE)
            THEN [table |-> Wiped(T), status |-> 500, failed |-> "post"]
       ELSE [table |-> Inserted(Wiped(T), data_to_insert), status |-> 200,
             failed |-> "none"]

\* wipe, then bulk-insert cards: the table and the status reset_cards and
\* import_cards end with, and the step that failed
Replace(T, cards, fault) ==
    LET data_to_insert == RowsOf(cards)
    IN IF fault = "delete" THEN [table |-> T, status |-> 500, failed |-> "delete"]
       ELSE IF fault = "file"
            THEN [table |-> Wiped(T), status |-> 500, failed |-> "file"]
       ELSE IF data_to_insert = << >>
            THEN [table |-> Wiped(T), status |-> 200, failed |-> "none"]
       ELSE IF fault = "post" \/ ~InsertOk(Wiped(T), data_to_insert, TRUE)
            THEN [table |-> Wiped(T), status |-> 500, failed |-> "post"]
       ELSE [table |-> Inserted(Wiped(T), data_to_insert), status |-> 200,
             failed |-> "none"]

reset_cards(t, module_id) ==
    /\ pc[t] = "route"
    /\ IF module_id \notin MODULE_TO_TABLE
       THEN /\ UNCHANGED tables
            /\ Respond(t, [op |-> "reset", module |-> module_id, status |-> 500,
                           fault |-> "module"])
       ELSE \E fault \in {"none", "delete", "file"}
                         \cup (IF Fixture(module_id) # << >> THEN {"post"} ELSE {}) :
            LET r == Replace(tables[module_id], Fixture(module_id), fault)
            IN /\ tables' = [tables EXCEPT ![module_id] = r.table]
               /\ Respond(t, [op |-> "reset", module |-> module_id,
                              status |-> r.status, fault |-> r.failed])

\* request bodies of import_cards: a JSON value is [type, items], a body also
\* carries the value of its "cards" member (None when it has none)
JsonNone == [type |-> "none", items |-> << >>]
JsonStr == [type |-> "str", items |-> << >>]
JsonList(items) == [type |-> "list", items |-> items]
DictBody(cards) == [type |-> "dict", items |-> << >>, cards |-> cards]
ListBody(items) == [type |-> "list", items |-> items, cards |-> JsonNone]
StrBody == [type |-> "str", items |-> << >>, cards |-> JsonNone]


\* variant: the type test is missing
isinstance_list_unchecked(v) == TRUE

\* isinstance(cards_to_import, list)
isinstance_list(v) == v.type = "list"

import_cards(t, module_id, data) ==
    /\ pc[t] = "route"
    /\ IF data.type # "dict"
       THEN /\ UNCHANGED tables
            /\ Respond(t, [op |-> "import", module |-> module_id, status |-> 500,
                           fault |-> "body", req |-> data])
       ELSE LET cards_to_import == data.cards
            IN IF ~isinstance_list(cards_to_import)
               THEN /\ UNCHANGED tables
                    /\ Respond(t, [op |-> "import", module |-> module_id,
                                   status |-> 400, fault |-> "body", req |-> data])
               ELSE IF module_id \notin MODULE_TO_TABLE
               THEN /\ UNCHANGED tables
                    /\ Respond(t, [op |-> "import", module |-> module_id,
                                   status |-> 500, fault |-> "module", req |-> data])
               ELSE \E fault \in {"none", "delete"}
                         \cup (IF cards_to_import.items # << >> THEN {"post"} ELSE {}) :
                    LET r == Replace(tables[module_id], cards_to_import.items, fault)
                    IN /\ tables' = [tables EXCEPT ![module_id] = r.table]
                       /\ Respond(t, [op |-> "import", module |-> module_id,
                                      status |-> r.status, fault |-> r.failed,
                                      req |-> data])

\* ------------------------------------------------------------------ inputs
CardIds == {A1, AX, ZZ}
NewCards == { [front |-> "a"],
              [front |-> "a", cardid |-> EmptyStr],
              [front |-> "b", cardid |-> AX] }
Updates == { [front |-> "c"], [front |-> "c", cardid |-> ZZ] }
ImportBodies == { DictBody(JsonList(<< >>)),
                  DictBody(JsonList(<< [cardid |-> ZZ, front |-> "b"] >>)),
                  DictBody(JsonList(<< [front |-> "b"] >>)),
                  DictBody(JsonStr),
                  DictBody(JsonNone),
                  ListBody(<< [cardid |-> ZZ, front |-> "b"] >>),
                  StrBody }

Next ==
    \E t \in Threads :
       \/ check_initial_data(t)
       \/ \E m \in MODULE_TO_TABLE : initialize_data_check(t, m)
       \/ \E m \in MODULE_TO_TABLE : initialize_data_load(t, m)
       \/ set_flag(t)
       \/ \E m \in ModuleIds : get_all_cards(t, m)
       \/ \E m \in ModuleIds, c \in NewCards : add_card(t, m, c)
       \/ \E m \in ModuleIds, id \in CardIds, u \in Updates : update_card(t, m, id, u)
       \/ \E m \in ModuleIds, id \in CardIds : delete_card(t, m, id)
       \/ \E m \in ModuleIds : reset_cards(t, m)
       \/ \E m \in ModuleIds, d \in ImportBodies : import_cards(t, m, d)

Spec == Init /\ [][Next]_vars

\* ------------------------------------------------------------------ claims
Known(m) == m \in MODULE_TO_TABLE
Routed == \E t \in Threads : pc[t] = "route" /\ pc'[t] = "idle"

\* ids of the form {module}_card_{N} and the largest N among them
HasForm(id, m) ==
    Len(id) = 3 /\ id[1] = m /\ id[2] = "card" /\ id[3] \in Range(Numerals)
RECURSIVE SetMax(_)
SetMax(S) == IF S = {} THEN 0
             ELSE LET x == CHOOSE x \in S : TRUE IN Max(x, SetMax(S \ {x}))
FormMax(T, m) == SetMax({int(id[3]) : id \in {i \in Ids(T) : HasForm(i, m)}})

\* C1: a card created from a payload without cardid gets the id
\* {module}_card_{K+1}, K being the largest N among the existing ids of the form
\* {module}_card_{N} (0 when there is none).
C1_AssignedId ==
    (last.op = "create" /\ last.status = 201 /\ "cardid" \notin DOMAIN last.req)
    => last.body.cardid
         = <<last.module, "card", str(FormMax(last.before, last.module) + 1)>>

C3_ResetThenList ==
    (last.op = "list" /\ last.status = 200
       /\ last.prev.op = "reset" /\ last.prev.status = 200
       /\ last.prev.module = last.module
       /\ last.prev.after = last.before)
    => /\ Len(last.body) = Len(Fixture(last.module))
       /\ Range(last.body) = Range(Fixture(last.module))

C3_Witness ==
    /\ last.op = "list" /\ last.status = 200 /\ last.module = "mod1"
    /\ last.prev.op = "reset" /\ last.prev.status = 200
    /\ last.prev.module = "mod1"
    /\ last.prev.after = last.before
    /\ Len(last.body) = 2

\* C4: an Update of card c, whatever its payload (a cardid other than c
\* included), leaves the set of stored cardids as it was, and the card it
\* returns carries cardid c.
C4_UpdateKeepsIds ==
    last.op = "update"
    => /\ Ids(last.after) = Ids(last.before)
       /\ last.status = 200 => last.body.cardid = last.id

C4_Witness ==
    /\ last.op = "update" /\ last.status = 200
    /\ "cardid" \in DOMAIN last.req /\ last.req.cardid # last.id
    /\ last.body.cardid = last.id

\* C5 as stated: no stored row's data contains a cardid field.
C5_NoCardidInData ==
    \A m \in MODULE_TO_TABLE : \A r \in tables[m] : "cardid" \notin DOMAIN r.data

\* C5 amended: a stored row's data may contain a cardid field (Create,
\* seeding, Reset and Import store the whole card as data, only Update strips
\* it), but never one that differs from the row's cardid column.
C5_DataCardidIsColumn ==
    \A m \in MODULE_TO_TABLE : \A r \in tables[m] :
       "cardid" \in DOMAIN r.data => r.data.cardid = r.cardid

C5_Witness ==
    /\ last.op = "create" /\ last.status = 201
    /\ \E r \in tables[last.module] :
         /\ "cardid" \in DOMAIN r.data /\ r.data.cardid = r.cardid
         /\ r.cardid = last.body.cardid
    /\ \E r \in tables[last.module] : "cardid" \notin DOMAIN r.data

\* C6: an operation on a module id outside the lookup is answered with a 4xx
\* status and changes no row of any table.
C6_UnknownModule4xx ==
    [][(Routed /\ ~Known(last'.module))
         => (last'.status \in 400..499 /\ tables' = tables)]_vars

\* C7: the seeding routine runs at most once for each known module.
C7_SeedsOnce == \A m \in MODULE_TO_TABLE : seedRuns[m] <= 1

\* C8: a Delete of an id the table does not hold, the module being known and
\* the store answering, is answered 200 and leaves the rows as they were.
C8_DeleteAbsent ==
    (last.op = "delete" /\ last.fault = "none" /\ last.id \notin Ids(last.before))
    => (last.status = 200 /\ last.after = last.before)

C8_Witness ==
    /\ last.op = "delete" /\ last.fault = "none"
    /\ last.id \notin Ids(last.before)
    /\ last.before # {}
    /\ last.status = 200

\* C9: a List of a known module, the store answering, is answered 200 with one
\* reshaped card per stored row; an empty table gives the empty array.
C9_ListOnePerRow ==
    (last.op = "list" /\ last.fault = "none")
    => /\ last.status = 200
       /\ Len(last.body) = Cardinality(last.before)
       /\ {last.body[i].cardid : i \in DOMAIN last.body} = Ids(last.before)
       /\ last.before = {} => last.body = << >>

C9_Witness ==
    /\ last.op = "list" /\ last.fault = "none"
    /\ last.before = {} /\ last.status = 200 /\ last.body = << >>

\* C10: when the step after the wipe of a Reset or an Import fails (the
\* fixture file cannot be read, the bulk insert fails), the answer is 500 and
\* the module's table is left empty.
C10_WipedOnFailure ==
    (last.op \in {"reset", "import"} /\ last.fault \in {"file", "post"})
    => (last.status = 500 /\ last.after = {})

C10_Witness ==
    /\ last.op = "reset" /\ last.fault = "file"
    /\ last.before # {}
    /\ last.status = 500 /\ last.after = {}
====
